---- MODULE Spec2Model ----
(***************************************************************************)
(* The field mutation engine of the block editor: the useField hook (the   *)
(* mapping-based version, with uniqueId, parent and sub_fields) and the    *)
(* helpers it calls.                                                       *)
(*                                                                         *)
(* A field collection is a JavaScript object, whose keys keep insertion    *)
(* order: it is modelled as a sequence of [k |-> key, v |-> field].        *)
(* A field is a record that always has every attribute; an attribute the   *)
(* JavaScript object does not have holds Absent (NoOrder for order), and   *)
(* one that it has with the value undefined holds Undefined.               *)
(*                                                                         *)
(* store is the block in the edited content of the host; block is the      *)
(* block that the hook parsed from it at the last render, and that the     *)
(* handlers of that render close over and change in place. Where a handler *)
(* leaves two paths of that object sharing one sub_fields object, which a  *)
(* value cannot show, the model takes the render that the write triggers   *)
(* at once. A block always has a name here, so a write is editBlock;       *)
(* the legacy [] of no fields is read as {}.                               *)
(* last and nops are history: the last call with its arguments, the block  *)
(* it read, what it did, and the number of calls made.                     *)
(***************************************************************************)
EXTENDS Integers, Sequences, FiniteSets, TLC

VARIABLES store, block, last, nops

vars == <<store, block, last, nops>>

(***************************************************************************)
(* Bounds.                                                                 *)
(***************************************************************************)
MaxOps == 3
MaxFields == 3
MaxSubFields == 2

(***************************************************************************)
(* Sentinels of the representation.                                        *)
(***************************************************************************)
Absent == "~absent"
Undefined == "~undefined"
Null == "~null"
NoOrder == -1

DEFAULT_LOCATION == "editor"
Locations == {"editor", "inspector"}

\* gcbEditor.controls: the registry of controls. Each control declares its
\* name, the type of the value it stores and the default of its one setting.
controls ==
  [text |-> [name |-> "text", type |-> "string", help |-> "text-help"],
   image |-> [name |-> "image", type |-> "integer", help |-> "image-help"]]

ControlNames == DOMAIN controls

\* getSettingsDefaults: the defaults that a control declares for its settings.
getSettingsDefaults(controlName) == [help |-> controls[controlName].help]

(***************************************************************************)
(* JavaScript objects as insertion-ordered mappings.                       *)
(***************************************************************************)
Keys(m) == {m[i].k : i \in 1..Len(m)}

Has(m, k) == k \in Keys(m)

IndexOf(m, k) == CHOOSE i \in 1..Len(m) : m[i].k = k

Get(m, k) == m[IndexOf(m, k)].v

Put(m, k, v) ==
  IF Has(m, k) THEN [m EXCEPT ![IndexOf(m, k)].v = v]
  ELSE Append(m, [k |-> k, v |-> v])

Del(m, k) == SelectSeq(m, LAMBDA e : e.k # k)

Values(m) == [i \in 1..Len(m) |-> m[i].v]

(***************************************************************************)
(* The helpers of js/src/block-editor/helpers and js/src/common/helpers.   *)
(***************************************************************************)
\* getFieldsAsObject: keys each field by its uniqueId, else by its name;
\* a field with neither is dropped.
RECURSIVE getFieldsAsObject(_)
getFieldsAsObject(arr) ==
  IF Len(arr) = 0 THEN <<>>
  ELSE LET rest == getFieldsAsObject(SubSeq(arr, 1, Len(arr) - 1))
           f == arr[Len(arr)]
           key == IF f.uniqueId # Absent THEN f.uniqueId ELSE f.name
       IN IF key = Absent THEN rest ELSE Put(rest, key, f)

\* The stable insertion of one field into a sequence sorted by order; a
\* comparison with a missing order is NaN, which sorts as equal.
RECURSIVE InsertByOrder(_, _)
InsertByOrder(sorted, f) ==
  IF Len(sorted) = 0 THEN <<f>>
  ELSE LET l == sorted[Len(sorted)]
       IN IF l.order = NoOrder \/ f.order = NoOrder \/ l.order <= f.order
          THEN Append(sorted, f)
          ELSE Append(InsertByOrder(SubSeq(sorted, 1, Len(sorted) - 1), f), l)

RECURSIVE SortByOrder(_)
SortByOrder(arr) ==
  IF Len(arr) = 0 THEN <<>>
  ELSE InsertByOrder(SortByOrder(SubSeq(arr, 1, Len(arr) - 1)), arr[Len(arr)])

\* getFieldsAsArray: the fields of a mapping, in the order of their order.
getFieldsAsArray(m) == SortByOrder(Values(m))

\* setCorrectOrderForFields: each field's order becomes its index.
setCorrectOrderForFields(arr) ==
  [i \in 1..Len(arr) |-> [arr[i] EXCEPT !.order = i - 1]]

Suffixed(base, n) == base \o "-" \o ToString(n)

\* getNewFieldNumber: 0 (the falsy result) when the base name is free, else
\* the smallest n >= 2 for which base-n is not a key.
getNewFieldNumber(fields, fieldName) ==
  IF ~Has(fields, fieldName) THEN 0
  ELSE CHOOSE n \in 2..(Len(fields) + 1) :
         /\ ~Has(fields, Suffixed(fieldName, n))
         /\ \A m \in 2..(n - 1) : Has(fields, Suffixed(fieldName, m))

getOtherLocation(location) ==
  IF location = "editor" THEN "inspector" ELSE "editor"

(***************************************************************************)
(* The host content store.                                                 *)
(***************************************************************************)
StringifyField(f) ==
  [f EXCEPT !.location = IF @ = Undefined THEN Absent ELSE @]

StringifyFields(m) ==
  [i \in 1..Len(m) |->
     [k |-> m[i].k,
      v |-> [StringifyField(m[i].v) EXCEPT
               !.sub = [j \in 1..Len(@) |->
                          [k |-> @[j].k, v |-> StringifyField(@[j].v)]]]]]

\* editBlock, then getBlock: JSON.stringify leaves out the undefined
\* properties, JSON.parse gives back the rest.
JSONRoundTrip(b) ==
  [hasFields |-> b.hasFields, fields |-> StringifyFields(b.fields)]

\* The outcomes of a handler: what it wrote (if anything), what it left in
\* the block object of the current render, and what it returned.
\* ins tells, for a call that stores a field under an allocated key, the
\* sibling collection before (target) and after (stored), and the key.
NoInsert == [target |-> <<>>, stored |-> <<>>, key |-> Absent]

Inserted(target, stored, key) == [target |-> target, stored |-> stored, key |-> key]

Wrote(newBlock, renderBlock, ret, ins) ==
  [out |-> "wrote", newBlock |-> newBlock, block |-> renderBlock, ret |-> ret,
   ins |-> ins]

Returned(renderBlock) ==
  [out |-> "noop", newBlock |-> renderBlock, block |-> renderBlock, ret |-> Null,
   ins |-> NoInsert]

Threw(renderBlock) ==
  [out |-> "threw", newBlock |-> renderBlock, block |-> renderBlock, ret |-> Null,
   ins |-> NoInsert]

\* The property name that a value gives: undefined names "undefined".
KeyOf(x) == IF x = Absent THEN "undefined" ELSE x

EmptyBlock == [hasFields |-> FALSE, fields |-> <<>>]

\* NO_FIELD_SELECTED, the selector of no field: {}.
NoSelector == [uniqueId |-> Absent, name |-> Absent, parent |-> Absent]

\* The settings a caller may pass; a key that is not passed holds Absent.
NoSettings == [location |-> Absent, name |-> Absent, label |-> Absent, help |-> Absent]

\* What spreading undefined or {} into an object literal contributes: nothing.
EmptyField ==
  [name |-> Absent, uniqueId |-> Absent, location |-> Absent, order |-> NoOrder,
   parent |-> Absent, control |-> Absent, type |-> Absent, label |-> Absent,
   help |-> Absent, hasSub |-> FALSE, sub |-> <<>>]

(***************************************************************************)
(* addNewField                                                             *)
(***************************************************************************)
\* The new field with the order of a first field, whatever the siblings.
NewFieldOrderedFirst(newFieldName, newFieldNumber, location, order, parentField) ==
  [EmptyField EXCEPT
     !.help = getSettingsDefaults("text").help,
     !.name = newFieldName,
     !.location = location,
     !.label = IF newFieldNumber # 0
               THEN "New Field " \o ToString(newFieldNumber) ELSE "New Field",
     !.control = "text",
     !.type = "string",
     !.order = 0,
     !.parent = IF parentField # Null THEN parentField ELSE Absent]

NewField(newFieldName, newFieldNumber, location, order, parentField) ==
  [EmptyField EXCEPT
     !.help = getSettingsDefaults("text").help,
     !.name = newFieldName,
     !.location = location,
     !.label = IF newFieldNumber # 0
               THEN "New Field " \o ToString(newFieldNumber) ELSE "New Field",
     !.control = "text",
     !.type = "string",
     !.order = order,
     !.parent = IF parentField # Null THEN parentField ELSE Absent]

\* addNewField with the number taken from the top-level fields.
addNewFieldNumberedAtTopLevel(b, location, parentField) ==
  LET fields0 == IF b.hasFields THEN b.fields ELSE <<>>
      hasParent == parentField # Null
      fields1 == IF hasParent /\ Has(fields0, parentField)
                    /\ ~Get(fields0, parentField).hasSub
                 THEN Put(fields0, parentField,
                          [Get(fields0, parentField) EXCEPT !.hasSub = TRUE, !.sub = <<>>])
                 ELSE fields0
  IN IF hasParent /\ ~Has(fields1, parentField) THEN Threw(b)
     ELSE
       LET currentFields == IF hasParent THEN Get(fields1, parentField).sub ELSE fields1
           newFieldNumber == getNewFieldNumber(fields1, "new-field")
           newFieldName == IF newFieldNumber # 0
                           THEN Suffixed("new-field", newFieldNumber)
                           ELSE "new-field"
           newField == NewField(newFieldName, newFieldNumber, location,
                               Len(currentFields), parentField)
           fields2 == IF hasParent
                      THEN Put(fields1, parentField,
                               [Get(fields1, parentField) EXCEPT
                                  !.sub = Put(@, newFieldName, newField)])
                      ELSE Put(fields1, newFieldName, newField)
           newBlock == [hasFields |-> TRUE, fields |-> fields2]
       IN Wrote(newBlock, IF b.hasFields THEN newBlock ELSE b, newFieldName,
                Inserted(currentFields, Put(currentFields, newFieldName, newField),
                         newFieldName))

addNewField(b, location, parentField) ==
  LET fields0 == IF b.hasFields THEN b.fields ELSE <<>>
      hasParent == parentField # Null
      fields1 == IF hasParent /\ Has(fields0, parentField)
                    /\ ~Get(fields0, parentField).hasSub
                 THEN Put(fields0, parentField,
                          [Get(fields0, parentField) EXCEPT !.hasSub = TRUE, !.sub = <<>>])
                 ELSE fields0
  IN IF hasParent /\ ~Has(fields1, parentField) THEN Threw(b)
     ELSE
       LET currentFields == IF hasParent THEN Get(fields1, parentField).sub ELSE fields1
           newFieldNumber == getNewFieldNumber(currentFields, "new-field")
           newFieldName == IF newFieldNumber # 0
                           THEN Suffixed("new-field", newFieldNumber)
                           ELSE "new-field"
           newField == NewField(newFieldName, newFieldNumber, location,
                               Len(currentFields), parentField)
           fields2 == IF hasParent
                      THEN Put(fields1, parentField,
                               [Get(fields1, parentField) EXCEPT
                                  !.sub = Put(@, newFieldName, newField)])
                      ELSE Put(fields1, newFieldName, newField)
           newBlock == [hasFields |-> TRUE, fields |-> fields2]
       IN Wrote(newBlock, IF b.hasFields THEN newBlock ELSE b, newFieldName,
                Inserted(currentFields, Put(currentFields, newFieldName, newField),
                         newFieldName))

(***************************************************************************)
(* getFieldsForLocation, getField                                          *)
(***************************************************************************)
\* The value of field.location as JavaScript reads it.
LocationOf(f) == IF f.location = Absent THEN Undefined ELSE f.location

InLocation(location, f) ==
  \/ location = LocationOf(f)
  \/ (LocationOf(f) = Undefined /\ DEFAULT_LOCATION = location)

\* res is "array", "null" or "threw".
getFieldsForLocation(b, location, parentField) ==
  IF ~b.hasFields THEN [res |-> "null", arr |-> <<>>]
  ELSE IF parentField # Null /\ ~Has(b.fields, parentField)
  THEN [res |-> "threw", arr |-> <<>>]
  ELSE IF parentField # Null /\ ~Get(b.fields, parentField).hasSub
  THEN [res |-> "null", arr |-> <<>>]
  ELSE LET fields == IF parentField = Null THEN b.fields
                     ELSE Get(b.fields, parentField).sub
       IN [res |-> "array",
           arr |-> SelectSeq(getFieldsAsArray(fields),
                             LAMBDA f : InLocation(location, f))]

\* res is "field", "undefined", "empty" ({}) or "threw".
getField(b, selectedField) ==
  IF selectedField.uniqueId = Absent \/ ~b.hasFields
  THEN [res |-> "empty", field |-> EmptyField]
  ELSE IF selectedField.parent # Absent
          /\ (~Has(b.fields, selectedField.parent)
              \/ ~Get(b.fields, selectedField.parent).hasSub)
  THEN [res |-> "threw", field |-> EmptyField]
  ELSE LET currentFields == IF selectedField.parent # Absent
                            THEN Get(b.fields, selectedField.parent).sub
                            ELSE b.fields
       IN IF Has(currentFields, selectedField.uniqueId)
          THEN [res |-> "field", field |-> Get(currentFields, selectedField.uniqueId)]
          ELSE [res |-> "undefined", field |-> EmptyField]

\* The block with the sub_fields of one top-level field replaced.
WithSubFields(b, parentField, subFields) ==
  [b EXCEPT !.fields = Put(@, parentField,
                           [Get(@, parentField) EXCEPT !.hasSub = TRUE, !.sub = subFields])]

(***************************************************************************)
(* changeControl                                                           *)
(***************************************************************************)
\* changeControl without the early return of lines 135-137: the reads of
\* newControl.name and of previousField.name throw.
changeControlUnguarded(b, fieldToChange, newControlName) ==
  IF newControlName \notin ControlNames \/ fieldToChange.name = Absent THEN Threw(b)
  ELSE
    LET hasParent == fieldToChange.parent # Absent
    IN IF ~b.hasFields THEN Threw(b)
       ELSE IF hasParent /\ (~Has(b.fields, fieldToChange.parent)
                             \/ ~Get(b.fields, fieldToChange.parent).hasSub)
       THEN Threw(b)
       ELSE
         LET siblings == IF hasParent THEN Get(b.fields, fieldToChange.parent).sub
                         ELSE b.fields
         IN IF ~Has(siblings, fieldToChange.name) THEN Threw(b)
            ELSE
              LET newControl == controls[newControlName]
                  previousField == Get(siblings, fieldToChange.name)
                  newField ==
                    [EmptyField EXCEPT
                       !.help = getSettingsDefaults(newControl.name).help,
                       !.name = previousField.name,
                       !.label = previousField.label,
                       !.location = LocationOf(previousField),
                       !.order = previousField.order,
                       !.control = newControl.name,
                       !.type = newControl.type,
                       !.parent = IF hasParent THEN fieldToChange.parent ELSE Absent]
                  newBlock ==
                    IF hasParent
                    THEN WithSubFields(b, fieldToChange.parent,
                                       Put(siblings, fieldToChange.name, newField))
                    ELSE [b EXCEPT !.fields = Put(@, fieldToChange.name, newField)]
              IN Wrote(newBlock, newBlock, Null, NoInsert)

changeControl(b, fieldToChange, newControlName) ==
  IF newControlName \notin ControlNames \/ fieldToChange.name = Absent THEN Returned(b)
  ELSE
    LET hasParent == fieldToChange.parent # Absent
    IN IF ~b.hasFields THEN Threw(b)
       ELSE IF hasParent /\ (~Has(b.fields, fieldToChange.parent)
                             \/ ~Get(b.fields, fieldToChange.parent).hasSub)
       THEN Threw(b)
       ELSE
         LET siblings == IF hasParent THEN Get(b.fields, fieldToChange.parent).sub
                         ELSE b.fields
         IN IF ~Has(siblings, fieldToChange.name) THEN Threw(b)
            ELSE
              LET newControl == controls[newControlName]
                  previousField == Get(siblings, fieldToChange.name)
                  newField ==
                    [EmptyField EXCEPT
                       !.help = getSettingsDefaults(newControl.name).help,
                       !.name = previousField.name,
                       !.label = previousField.label,
                       !.location = LocationOf(previousField),
                       !.order = previousField.order,
                       !.control = newControl.name,
                       !.type = newControl.type,
                       !.parent = IF hasParent THEN fieldToChange.parent ELSE Absent]
                  newBlock ==
                    IF hasParent
                    THEN WithSubFields(b, fieldToChange.parent,
                                       Put(siblings, fieldToChange.name, newField))
                    ELSE [b EXCEPT !.fields = Put(@, fieldToChange.name, newField)]
              IN Wrote(newBlock, newBlock, Null, NoInsert)

(***************************************************************************)
(* changeFieldName, changeFieldLocation, changeFieldSettings               *)
(***************************************************************************)
\* The sub_fields with their parent left as it was.
WithParentKept(subFields, newName) == Values(subFields)

WithParent(subFields, newName) ==
  [i \in 1..Len(subFields) |-> [subFields[i].v EXCEPT !.parent = newName]]

\* The field to rename after line 185: its sub_fields point to the new name.
Reparented(fields, previousUniqueId, newName) ==
  IF ~Has(fields, previousUniqueId) THEN EmptyField
  ELSE LET fieldToRename == Get(fields, previousUniqueId)
       IN IF fieldToRename.hasSub
          THEN [fieldToRename EXCEPT
                  !.sub = getFieldsAsObject(WithParent(fieldToRename.sub, newName))]
          ELSE fieldToRename

\* The new name as the key, whether it is taken or not.
NewUniqueIdUnsuffixed(fields, newName) == newName

NewUniqueId(fields, newName) ==
  LET newFieldNumber == getNewFieldNumber(fields, newName)
  IN IF newFieldNumber # 0 THEN Suffixed(newName, newFieldNumber) ELSE newName

\* The rename without the delete of the previous key.
changeFieldNameKeepingOldKey(fields, previousUniqueId, newName) ==
  LET newFieldUniqueId == NewUniqueId(fields, newName)
      renamed == [Reparented(fields, previousUniqueId, newName) EXCEPT
                    !.name = newName, !.uniqueId = newFieldUniqueId]
  IN Put(fields, newFieldUniqueId, renamed)

changeFieldName(fields, previousUniqueId, newName) ==
  LET newFieldUniqueId == NewUniqueId(fields, newName)
      renamed == [Reparented(fields, previousUniqueId, newName) EXCEPT
                    !.name = newName, !.uniqueId = newFieldUniqueId]
  IN Del(Put(fields, newFieldUniqueId, renamed), previousUniqueId)

\* Called with fields = block.fields and a selector whose name is a key.
changeFieldLocation(b, fields, selectedField, newLocation) ==
  LET fieldToMove == Get(fields, KeyOf(selectedField.name))
      previousLocation == LocationOf(fieldToMove)
      previousLocationFields == getFieldsForLocation(b, previousLocation, Null).arr
      fieldsWithoutMovedField ==
        SelectSeq(previousLocationFields, LAMBDA f : f.name # selectedField.name)
      newLocationFields ==
        Append(getFieldsForLocation(b, newLocation, Null).arr, fieldToMove)
  IN getFieldsAsObject(setCorrectOrderForFields(fieldsWithoutMovedField)
                       \o setCorrectOrderForFields(newLocationFields))

\* { ...newSettings, ...currentField }: the keys of the current field win.
MergedUnderCurrent(currentField, newSettings) ==
  [currentField EXCEPT
     !.location = IF @ = Absent THEN newSettings.location ELSE @,
     !.name = IF @ = Absent THEN newSettings.name ELSE @,
     !.label = IF @ = Absent THEN newSettings.label ELSE @,
     !.help = IF @ = Absent THEN newSettings.help ELSE @]

\* { ...currentField, ...newSettings }
Merged(currentField, newSettings) ==
  [currentField EXCEPT
     !.location = IF newSettings.location # Absent THEN newSettings.location ELSE @,
     !.name = IF newSettings.name # Absent THEN newSettings.name ELSE @,
     !.label = IF newSettings.label # Absent THEN newSettings.label ELSE @,
     !.help = IF newSettings.help # Absent THEN newSettings.help ELSE @]

changeFieldSettings(b, fieldToChange, newSettings) ==
  LET hasLocation == newSettings.location # Absent
      hasName == newSettings.name # Absent
      hasParent == fieldToChange.parent # Absent
      uniqueId == KeyOf(fieldToChange.uniqueId)
  IN IF ~b.hasFields THEN Threw(b)
     ELSE IF hasLocation /\ ~Has(b.fields, KeyOf(fieldToChange.name)) THEN Threw(b)
     ELSE
       LET fields1 == IF hasLocation
                      THEN changeFieldLocation(b, b.fields, fieldToChange,
                                               newSettings.location)
                      ELSE b.fields
       IN IF hasParent /\ (~Has(fields1, fieldToChange.parent)
                           \/ ~Get(fields1, fieldToChange.parent).hasSub)
          THEN Threw(b)
          ELSE
            LET siblings == IF hasParent THEN Get(fields1, fieldToChange.parent).sub
                            ELSE fields1
                currentField == IF Has(siblings, uniqueId) THEN Get(siblings, uniqueId)
                                ELSE EmptyField
                newField == Merged(currentField, newSettings)
                siblings2 == Put(siblings, uniqueId, newField)
                \* the same collection as the object of the render holds it
                \* after the in-place changes of lines 185 and 275-278
                inPlace == IF hasName /\ ~hasParent
                           THEN Put(siblings2, uniqueId,
                                    Reparented(siblings2, uniqueId, newSettings.name))
                           ELSE siblings2
                siblings3 == IF hasName
                             THEN changeFieldName(siblings2, uniqueId, newSettings.name)
                             ELSE siblings2
                newBlock == IF hasParent
                            THEN WithSubFields([b EXCEPT !.fields = fields1],
                                               fieldToChange.parent, siblings3)
                            ELSE [b EXCEPT !.fields = siblings3]
                renderBlock ==
                  IF hasLocation
                  THEN (IF hasParent THEN JSONRoundTrip(newBlock) ELSE b)
                  ELSE IF hasParent THEN newBlock
                  ELSE [b EXCEPT !.fields = inPlace]
            IN Wrote(newBlock, renderBlock, Null,
                     IF hasName
                     THEN Inserted(siblings2, siblings3,
                                   NewUniqueId(siblings2, newSettings.name))
                     ELSE NoInsert)

(***************************************************************************)
(* deleteField, duplicateField, reorderFields                              *)
(***************************************************************************)
deleteField(b, selectedField) ==
  IF ~b.hasFields THEN Threw(b)
  ELSE
    LET newBlock ==
          IF selectedField.parent # Absent
             /\ Has(b.fields, selectedField.parent)
             /\ Get(b.fields, selectedField.parent).hasSub
          THEN WithSubFields(b, selectedField.parent,
                             Del(Get(b.fields, selectedField.parent).sub,
                                 KeyOf(selectedField.name)))
          ELSE [b EXCEPT !.fields = Del(@, KeyOf(selectedField.name))]
    IN Wrote(newBlock, newBlock, Null, NoInsert)

duplicateField(b, selectedField) ==
  LET fields == IF b.hasFields THEN b.fields ELSE <<>>
      got == getField(b, selectedField)
      hasParent == selectedField.parent # Absent
  IN IF got.res = "threw" THEN Threw(b)
     ELSE IF hasParent /\ ~Has(fields, selectedField.parent) THEN Threw(b)
     ELSE
       LET currentFields == IF hasParent THEN Get(fields, selectedField.parent).sub
                            ELSE fields
           \* an undefined name takes the default of the parameter
           newFieldNumber ==
             getNewFieldNumber(currentFields,
                               IF selectedField.name = Absent THEN "new-field"
                               ELSE selectedField.name)
       IN IF newFieldNumber = 0 THEN Threw(b)
          ELSE
            LET newFieldName ==
                  Suffixed(IF selectedField.name = Absent THEN "undefined"
                           ELSE selectedField.name, newFieldNumber)
                clone == [got.field EXCEPT !.name = newFieldName, !.order = Len(fields)]
                stored == Put(currentFields, newFieldName, clone)
                newBlock ==
                  IF hasParent
                  THEN WithSubFields(b, selectedField.parent, stored)
                  ELSE [b EXCEPT !.fields = stored]
            IN Wrote(newBlock,
                     IF clone.hasSub THEN JSONRoundTrip(newBlock) ELSE newBlock,
                     Null, Inserted(currentFields, stored, newFieldName))

\* [ a[ moveFrom ], a[ moveTo ] ] = [ a[ moveTo ], a[ moveFrom ] ], 0-based
Swapped(arr, moveFrom, moveTo) ==
  [i \in 1..Len(arr) |->
     IF i = moveFrom + 1 THEN arr[moveTo + 1]
     ELSE IF i = moveTo + 1 THEN arr[moveFrom + 1]
     ELSE arr[i]]

\* The merge without the call of setCorrectOrderForFields.
ReorderedUnnormalized(b, newFields, currentLocation, parentField) ==
  IF parentField # Null
  THEN WithSubFields(b, parentField, getFieldsAsObject(newFields))
  ELSE [b EXCEPT !.fields =
          getFieldsAsObject(
            newFields
            \o getFieldsForLocation(b, getOtherLocation(currentLocation), Null).arr)]

\* Lines 387-397: the block with the swapped fields merged back.
Reordered(b, newFields, currentLocation, parentField) ==
  IF parentField # Null
  THEN WithSubFields(b, parentField,
                     getFieldsAsObject(setCorrectOrderForFields(newFields)))
  ELSE [b EXCEPT !.fields =
          getFieldsAsObject(
            setCorrectOrderForFields(newFields)
            \o getFieldsForLocation(b, getOtherLocation(currentLocation), Null).arr)]

reorderFields(b, moveFrom, moveTo, currentLocation, parentField) ==
  LET fieldsToReorder == getFieldsForLocation(b, currentLocation, parentField)
  IN IF fieldsToReorder.res # "array" THEN Threw(b)
     ELSE IF Len(fieldsToReorder.arr) = 0 THEN Returned(b)
     ELSE
       LET newFields == Swapped(fieldsToReorder.arr, moveFrom, moveTo)
           newBlock == Reordered(b, newFields, currentLocation, parentField)
       IN Wrote(newBlock, IF parentField # Null THEN newBlock ELSE b, Null, NoInsert)

(***************************************************************************)
(* The state machine.                                                      *)
(***************************************************************************)
Call(op, sel, location, parentField, newControlName, newSettings, moveFrom, moveTo, r) ==
  /\ nops < MaxOps
  /\ nops' = nops + 1
  /\ store' = IF r.out = "wrote" THEN JSONRoundTrip(r.newBlock) ELSE store
  /\ block' = r.block
  /\ last' = [op |-> op, sel |-> sel, location |-> location,
              parentField |-> parentField, newControlName |-> newControlName,
              newSettings |-> newSettings, moveFrom |-> moveFrom, moveTo |-> moveTo,
              pre |-> block, preStore |-> store, out |-> r.out,
              newBlock |-> r.newBlock, ret |-> r.ret, ins |-> r.ins]

Init ==
  /\ store \in {EmptyBlock, [hasFields |-> TRUE, fields |-> <<>>]}
  /\ block = store
  /\ nops = 0
  /\ last = [op |-> "none", sel |-> NoSelector, location |-> Absent,
             parentField |-> Null, newControlName |-> Absent,
             newSettings |-> NoSettings, moveFrom |-> 0, moveTo |-> 0,
             pre |-> store, preStore |-> store, out |-> "noop",
             newBlock |-> store, ret |-> Null, ins |-> NoInsert]

\* The parents a caller may name: none, a top-level field, or a field that
\* is not there.
ParentArgs == {Null, "ghost"} \cup Keys(block.fields)

AddNewField ==
  \E location \in Locations, parentField \in ParentArgs :
    /\ parentField = Null => Len(block.fields) < MaxFields
    /\ (parentField # Null /\ Has(block.fields, parentField))
         => Len(Get(block.fields, parentField).sub) < MaxSubFields
    /\ Call("addNewField", NoSelector, location, parentField, Absent, NoSettings, 0, 0,
            addNewField(block, location, parentField))

\* The selected field references a caller may hold: one of each field of the
\* rendered block, as the editor builds them, and stale ones, of fields or
\* parents that are not there.
SelectorsOf(m) ==
  {[uniqueId |-> m[i].k, name |-> m[i].v.name, parent |-> m[i].v.parent] :
     i \in 1..Len(m)}

Selectors ==
  {NoSelector}
  \cup SelectorsOf(block.fields)
  \cup UNION {SelectorsOf(block.fields[i].v.sub) : i \in 1..Len(block.fields)}
  \cup {[uniqueId |-> "ghost", name |-> "ghost", parent |-> Absent],
        [uniqueId |-> "new-field", name |-> "new-field", parent |-> "ghost"]}
  \cup {[uniqueId |-> "ghost", name |-> "ghost", parent |-> k] :
          k \in {j \in Keys(block.fields) : Get(block.fields, j).hasSub}}

NewNames == {"x", "new-field"}

\* The settings a caller changes: a location, a name, both at once, or
\* a setting that is neither.
NewSettings ==
  {[NoSettings EXCEPT !.location = l] : l \in Locations}
  \cup {[NoSettings EXCEPT !.name = n] : n \in NewNames}
  \cup {[NoSettings EXCEPT !.location = "inspector", !.name = "x"],
        [NoSettings EXCEPT !.location = "editor", !.name = "new-field"]}
  \cup {[NoSettings EXCEPT !.label = "Title"]}

ChangeControl ==
  \E fieldToChange \in Selectors, newControlName \in ControlNames \cup {"bogus"} :
    Call("changeControl", fieldToChange, Absent, Null, newControlName, NoSettings, 0, 0,
         changeControl(block, fieldToChange, newControlName))

ChangeFieldSettings ==
  \E fieldToChange \in Selectors, newSettings \in NewSettings :
    /\ Len(block.fields) < MaxFields \/ Has(block.fields, fieldToChange.uniqueId)
    /\ Call("changeFieldSettings", fieldToChange, Absent, Null, Absent, newSettings, 0, 0,
            changeFieldSettings(block, fieldToChange, newSettings))

DeleteField ==
  \E selectedField \in Selectors :
    Call("deleteField", selectedField, Absent, Null, Absent, NoSettings, 0, 0,
         deleteField(block, selectedField))

DuplicateField ==
  \E selectedField \in Selectors :
    /\ selectedField.parent = Absent => Len(block.fields) < MaxFields
    /\ (selectedField.parent # Absent /\ Has(block.fields, selectedField.parent))
         => Len(Get(block.fields, selectedField.parent).sub) < MaxSubFields
    /\ Call("duplicateField", selectedField, Absent, Null, Absent, NoSettings, 0, 0,
            duplicateField(block, selectedField))

\* The indexes of a drag and drop are positions of the list that is shown.
ReorderFields ==
  \E currentLocation \in Locations, parentField \in ParentArgs :
    LET shown == getFieldsForLocation(block, currentLocation, parentField).arr
        Indexes == IF Len(shown) = 0 THEN {0} ELSE 0..(Len(shown) - 1)
    IN \E moveFrom \in Indexes, moveTo \in Indexes :
         Call("reorderFields", NoSelector, currentLocation, parentField, Absent,
              NoSettings, moveFrom, moveTo,
              reorderFields(block, moveFrom, moveTo, currentLocation, parentField))

\* changeFieldName is returned by the hook too: a caller may apply it to the
\* top-level fields or to the sub_fields of a field. It writes nothing, but
\* line 185 changes the field to rename in place.
changeFieldNameCall(b, parentField, previousUniqueId, newName) ==
  LET fields == IF parentField = Null THEN b.fields ELSE Get(b.fields, parentField).sub
      renderBlock ==
        IF parentField = Null /\ Has(fields, previousUniqueId)
        THEN [b EXCEPT !.fields = Put(@, previousUniqueId,
                                      Reparented(fields, previousUniqueId, newName))]
        ELSE b
  IN [out |-> "returned", newBlock |-> b, block |-> renderBlock, ret |-> Null,
      ins |-> Inserted(fields, changeFieldName(fields, previousUniqueId, newName),
                       NewUniqueId(fields, newName))]

ChangeFieldName ==
  \E parentField \in {Null} \cup {k \in Keys(block.fields) : Get(block.fields, k).hasSub},
     newName \in NewNames :
    LET fields == IF parentField = Null THEN block.fields
                  ELSE Get(block.fields, parentField).sub
    IN \E previousUniqueId \in Keys(fields) \cup {"ghost"} :
         Call("changeFieldName",
              [uniqueId |-> previousUniqueId, name |-> Absent, parent |-> Absent],
              Absent, parentField, Absent, [NoSettings EXCEPT !.name = newName], 0, 0,
              changeFieldNameCall(block, parentField, previousUniqueId, newName))

\* The outcome of a read accessor: res tells what it returned, or that it
\* threw; nothing is written and the block of the render is untouched.
Read(b, res) ==
  [out |-> res, newBlock |-> b, block |-> b, ret |-> Null, ins |-> NoInsert]

GetField ==
  \E selectedField \in Selectors :
    Call("getField", selectedField, Absent, Null, Absent, NoSettings, 0, 0,
         Read(block, getField(block, selectedField).res))

GetFieldsForLocation ==
  \E location \in Locations, parentField \in ParentArgs :
    Call("getFieldsForLocation", NoSelector, location, parentField, Absent,
         NoSettings, 0, 0,
         Read(block, getFieldsForLocation(block, location, parentField).res))

\* A render of the hook: block is parsed again from the edited content.
Render ==
  /\ block # store
  /\ block' = store
  /\ UNCHANGED <<store, last, nops>>

Next ==
  \/ AddNewField
  \/ ChangeControl
  \/ ChangeFieldSettings
  \/ DeleteField
  \/ DuplicateField
  \/ ReorderFields
  \/ Render

Spec == Init /\ [][Next]_vars

\* The operations of the ordering invariant: add, duplicate, delete, reorder.
NextOrdering ==
  \/ AddNewField
  \/ DuplicateField
  \/ DeleteField
  \/ ReorderFields
  \/ Render

SpecOrdering == Init /\ [][NextOrdering]_vars

\* changeFieldName applied on its own to the collections that adding builds.
NextRename ==
  \/ AddNewField
  \/ ChangeFieldName
  \/ Render

SpecRename == Init /\ [][NextRename]_vars

\* A block saved by an earlier session: two fields were added and the second
\* one was renamed to the name of the first, which gave it a suffixed
\* uniqueId.
SavedBlock ==
  [hasFields |-> TRUE,
   fields |->
     <<[k |-> "new-field",
        v |-> NewField("new-field", 0, "editor", 0, Null)],
       [k |-> "new-field-3",
        v |-> [NewField("new-field", 2, "editor", 1, Null) EXCEPT
                 !.uniqueId = "new-field-3"]]>>]

InitSaved ==
  /\ store = SavedBlock
  /\ block = store
  /\ nops = 0
  /\ last = [op |-> "none", sel |-> NoSelector, location |-> Absent,
             parentField |-> Null, newControlName |-> Absent,
             newSettings |-> NoSettings, moveFrom |-> 0, moveTo |-> 0,
             pre |-> store, preStore |-> store, out |-> "noop",
             newBlock |-> store, ret |-> Null, ins |-> NoInsert]

NextSaved ==
  \/ ChangeFieldSettings
  \/ Render

SpecSaved == InitSaved /\ [][NextSaved]_vars

\* A block saved by an earlier session: a field was added to the editor,
\* renamed to x and duplicated, and a field was added to the inspector.
ClonedBlock ==
  LET added == JSONRoundTrip(addNewField(EmptyBlock, "editor", Null).newBlock)
      renamed ==
        JSONRoundTrip(
          changeFieldSettings(
            added,
            [uniqueId |-> "new-field", name |-> "new-field", parent |-> Absent],
            [NoSettings EXCEPT !.name = "x"]).newBlock)
      cloned ==
        JSONRoundTrip(
          duplicateField(
            renamed, [uniqueId |-> "x", name |-> "x", parent |-> Absent]).newBlock)
  IN JSONRoundTrip(addNewField(cloned, "inspector", Null).newBlock)

\* A block saved by an earlier session: two fields were added, and a field
\* was added to the first of them, a repeater.
RepeaterBlock ==
  LET first == JSONRoundTrip(addNewField(EmptyBlock, "editor", Null).newBlock)
      second == JSONRoundTrip(addNewField(first, "editor", Null).newBlock)
  IN JSONRoundTrip(addNewField(second, "editor", "new-field").newBlock)

\* The editor opened on a block that an earlier session saved.
SavedBlocks == {SavedBlock, ClonedBlock, RepeaterBlock}

InitReopened ==
  /\ store \in SavedBlocks
  /\ block = store
  /\ nops = 0
  /\ last = [op |-> "none", sel |-> NoSelector, location |-> Absent,
             parentField |-> Null, newControlName |-> Absent,
             newSettings |-> NoSettings, moveFrom |-> 0, moveTo |-> 0,
             pre |-> store, preStore |-> store, out |-> "noop",
             newBlock |-> store, ret |-> Null, ins |-> NoInsert]

NextReopened ==
  \/ AddNewField
  \/ DeleteField
  \/ DuplicateField
  \/ ReorderFields
  \/ Render

SpecReopened == InitReopened /\ [][NextReopened]_vars

\* The controls of the fields of a saved block changed, between reorders.
NextControl ==
  \/ ChangeControl
  \/ ReorderFields
  \/ Render

SpecControl == InitReopened /\ [][NextControl]_vars

\* A block saved by an earlier session: two fields were added, and a field
\* was added to the second of them, a repeater.
SecondRepeaterBlock ==
  LET first == JSONRoundTrip(addNewField(EmptyBlock, "editor", Null).newBlock)
      second == JSONRoundTrip(addNewField(first, "editor", Null).newBlock)
  IN JSONRoundTrip(addNewField(second, "editor", "new-field-2").newBlock)

InitRepeater ==
  /\ store = SecondRepeaterBlock
  /\ block = store
  /\ nops = 0
  /\ last = [op |-> "none", sel |-> NoSelector, location |-> Absent,
             parentField |-> Null, newControlName |-> Absent,
             newSettings |-> NoSettings, moveFrom |-> 0, moveTo |-> 0,
             pre |-> store, preStore |-> store, out |-> "noop",
             newBlock |-> store, ret |-> Null, ins |-> NoInsert]

\* The settings of the fields of the repeater block changed.
SpecRepeater == InitRepeater /\ [][NextSaved]_vars

\* The read accessors called on the blocks that adding builds.
NextRead ==
  \/ AddNewField
  \/ GetField
  \/ GetFieldsForLocation
  \/ Render

SpecRead == Init /\ [][NextRead]_vars

(***************************************************************************)
(* The properties.                                                         *)
(***************************************************************************)
IsMutation ==
  last.op \in {"addNewField", "duplicateField", "deleteField", "changeControl",
               "changeFieldSettings", "reorderFields"}

\* The call worked on the content that the store held when it was made.
Fresh == JSONRoundTrip(last.pre) = last.preStore

\* The fields of one (parent, location) group of a block.
SiblingsOf(b, parentField) ==
  IF parentField = Null THEN b.fields ELSE Get(b.fields, parentField).sub

Parents(b) == {Null} \cup {k \in Keys(b.fields) : Get(b.fields, k).hasSub}

GroupOf(b, parentField, location) ==
  SelectSeq(Values(SiblingsOf(b, parentField)), LAMBDA f : InLocation(location, f))

Dense(group) == {group[i].order : i \in 1..Len(group)} = 0..(Len(group) - 1)

UniqueKeys(m) == \A i, j \in 1..Len(m) : m[i].k = m[j].k => i = j

StructurallyValid(b) ==
  \A p \in Parents(b) :
    /\ UniqueKeys(SiblingsOf(b, p))
    /\ \A l \in Locations : Dense(GroupOf(b, p, l))

\* The selector, or the parent, of the call names nothing of the block.
UnknownParent(b, parentField) ==
  parentField # Null /\ ~(b.hasFields /\ Has(b.fields, parentField))

UnknownField(b, sel) ==
  /\ sel.uniqueId # Absent
  /\ \/ ~b.hasFields
     \/ (sel.parent # Absent /\ sel.parent \notin Parents(b))
     \/ ~Has(SiblingsOf(b, IF sel.parent = Absent THEN Null ELSE sel.parent),
             sel.uniqueId)

UnknownReference ==
  \/ last.op \in {"addNewField", "reorderFields"} /\ UnknownParent(last.pre, last.parentField)
  \/ /\ last.op \in {"duplicateField", "deleteField", "changeControl",
                     "changeFieldSettings"}
     /\ UnknownField(last.pre, last.sel)

\* The call names a field, or a collection, of the block.
KnownReference ==
  /\ ~UnknownReference
  /\ last.op \in {"duplicateField", "deleteField", "changeControl",
                  "changeFieldSettings"} => last.sel.uniqueId # Absent

\* C1: a mutation applied to a structurally valid block either writes a
\* structurally valid block or changes nothing: in each (parent, location)
\* group of a written block the order values are exactly 0..k-1, and the
\* keys of each collection are unique.
C1_WrittenBlockIsValid ==
  (IsMutation /\ Fresh /\ KnownReference /\ StructurallyValid(last.pre)) =>
    IF last.out = "wrote" THEN StructurallyValid(store) ELSE store = last.preStore

RenamedKey ==
  IF last.op = "changeFieldSettings" THEN KeyOf(last.sel.uniqueId) ELSE Absent

C4_CallTransformsStoreContent == IsMutation => Fresh

\* C5: a mutation call whose selector or parent names nothing of the current
\* block does not throw and leaves the store as it was.
C5_UnknownReferenceIsNoOp ==
  (IsMutation /\ Fresh /\ UnknownReference) =>
    (last.out # "threw" /\ store = last.preStore)

IsRename ==
  /\ last.op = "changeFieldSettings"
  /\ last.out = "wrote"
  /\ last.newSettings.name # Absent

\* C6: after the rename of a top-level field that has sub_fields, every
\* sub_field of the renamed field has the new name as its parent.
C6_SubFieldsPointToNewName ==
  (/\ IsRename
   /\ last.sel.parent = Absent
   /\ Get(last.ins.target, RenamedKey).hasSub) =>
    /\ Has(store.fields, last.ins.key)
    /\ Get(store.fields, last.ins.key).hasSub
    /\ \A i \in 1..Len(Get(store.fields, last.ins.key).sub) :
         Get(store.fields, last.ins.key).sub[i].v.parent = last.newSettings.name

C6_Witness ==
  /\ IsRename
  /\ last.sel.parent = Absent
  /\ Get(last.ins.target, RenamedKey).hasSub
  /\ Len(Get(store.fields, last.ins.key).sub) > 0
  /\ \A i \in 1..Len(Get(last.ins.target, RenamedKey).sub) :
       Get(last.ins.target, RenamedKey).sub[i].v.parent # last.newSettings.name

\* The collection of the store that the rename of the last call wrote.
RenamedIn(b) ==
  SiblingsOf(b, IF last.sel.parent = Absent THEN Null ELSE last.sel.parent)

\* newName, or newName with the smallest suffix n >= 2 that is not a key.
IsAllocated(key, fields, newName) ==
  IF ~Has(fields, newName) THEN key = newName
  ELSE \E n \in 2..(Len(fields) + 1) :
         /\ key = Suffixed(newName, n)
         /\ ~Has(fields, key)
         /\ \A m \in 2..(n - 1) : Has(fields, Suffixed(newName, m))

\* C7: a rename moves the field from its old key to the new name, or to the
\* new name with an allocated suffix when the name is a key already: the old
\* key is gone, the field under the new key has the new name and is otherwise
\* the field that was renamed, and every other key maps to the same field.
C7_RenameMovesTheField ==
  IsRename =>
    LET target == last.ins.target
        stored == last.ins.stored
        key == last.ins.key
        old == Get(target, RenamedKey)
    IN /\ IsAllocated(key, target, last.newSettings.name)
       /\ ~Has(stored, RenamedKey)
       /\ Keys(stored) = (Keys(target) \ {RenamedKey}) \cup {key}
       /\ Get(stored, key).name = last.newSettings.name
       /\ [Get(stored, key) EXCEPT !.name = old.name, !.uniqueId = old.uniqueId,
                                   !.sub = old.sub] = old
       /\ \A k \in Keys(target) \ {RenamedKey} : Get(stored, k) = Get(target, k)
       /\ RenamedIn(store) = StringifyFields(stored)

\* A rename of a field of the block, once to a free name and once to a
\* taken one.
C7_Witness ==
  /\ IsRename
  /\ Fresh
  /\ KnownReference
  /\ Has(last.ins.target, last.newSettings.name)
  /\ last.ins.key = Suffixed(last.newSettings.name, 2)
  /\ Len(last.ins.target) > 1

\* C8: changeFieldName with a previousUniqueId that is not a key of fields
\* returns the fields as they were.
C8_RenameOfMissingFieldIsNoOp ==
  (last.op = "changeFieldName" /\ ~Has(last.ins.target, last.sel.uniqueId)) =>
    last.ins.stored = last.ins.target

\* The location that a field shows in.
ShownIn(f) == IF LocationOf(f) = Undefined THEN DEFAULT_LOCATION ELSE f.location

IsMove ==
  /\ last.op = "changeFieldSettings"
  /\ Fresh
  /\ last.sel.parent = Absent
  /\ KnownReference
  /\ Get(last.pre.fields, last.sel.uniqueId).name = last.sel.name
  /\ last.newSettings.name = Absent
  /\ last.newSettings.location # Absent
  /\ last.newSettings.location # ShownIn(Get(last.pre.fields, last.sel.uniqueId))

\* C9: changeFieldSettings with a location other than the one of the field
\* moves it: the field leaves the group of its previous location, is the
\* last of the group of the new location, and the order values of both
\* groups are exactly 0..k-1.
C9_LocationMoveIsDense ==
  IsMove =>
    LET uniqueId == last.sel.uniqueId
        previous == ShownIn(Get(last.pre.fields, uniqueId))
        new == last.newSettings.location
    IN /\ last.out = "wrote"
       /\ Has(store.fields, uniqueId)
       /\ ShownIn(Get(store.fields, uniqueId)) = new
       /\ Get(store.fields, uniqueId).name = last.sel.name
       /\ Get(store.fields, uniqueId).order = Len(GroupOf(store, Null, new)) - 1
       /\ Dense(GroupOf(store, Null, previous))
       /\ Dense(GroupOf(store, Null, new))

\* The key that getFieldsAsObject gives a field.
ObjectKey(f) == IF f.uniqueId # Absent THEN f.uniqueId ELSE f.name

\* C10: reorderFields exchanges the fields at moveFrom and moveTo: the two
\* exchange their order values, every other field of the group keeps its
\* order, and no name changes.
C10_ReorderIsAPairwiseSwap ==
  (last.op = "reorderFields" /\ Fresh /\ last.out = "wrote") =>
    LET before == getFieldsForLocation(last.pre, last.location, last.parentField).arr
        after == SiblingsOf(store, last.parentField)
        Partner(i) == IF i = last.moveFrom + 1 THEN last.moveTo + 1
                      ELSE IF i = last.moveTo + 1 THEN last.moveFrom + 1
                      ELSE i
    IN \A i \in 1..Len(before) :
         /\ Has(after, ObjectKey(before[i]))
         /\ Get(after, ObjectKey(before[i])).name = before[i].name
         /\ Get(after, ObjectKey(before[i])).order = before[Partner(i)].order

\* C11: a top-level reorderFields of one location leaves the fields of the
\* other location as they were: each is in the written collection under its
\* key, with every attribute, order included, as before the call.
C11_ReorderKeepsOtherLocation ==
  (/\ last.op = "reorderFields"
   /\ Fresh
   /\ last.out = "wrote"
   /\ last.parentField = Null) =>
    \A i \in 1..Len(last.preStore.fields) :
      LET e == last.preStore.fields[i]
      IN InLocation(getOtherLocation(last.location), e.v) =>
           /\ Has(store.fields, e.k)
           /\ Get(store.fields, e.k) = e.v

\* The top-level fields that a call read.
FieldsRead == IF last.pre.hasFields THEN last.pre.fields ELSE <<>>

\* C12: addNewField(location, null) stores a field named new-field when that
\* name is free (the first call on an empty block), and else new-field-n with
\* the smallest n >= 2 that is free (new-field-2 for the second call); the
\* field has the location given and the number of siblings before the
\* insertion as its order, and the call returns the key of the field.
C12_AddNewFieldNamesAndOrders ==
  (last.op = "addNewField" /\ last.parentField = Null) =>
    LET key == last.ret
    IN /\ last.out = "wrote"
       /\ IsAllocated(key, FieldsRead, "new-field")
       /\ FieldsRead = <<>> => key = "new-field"
       /\ Keys(FieldsRead) = {"new-field"} => key = "new-field-2"
       /\ Has(store.fields, key)
       /\ Get(store.fields, key).name = key
       /\ Get(store.fields, key).order = Len(FieldsRead)
       /\ Get(store.fields, key).location = last.location
       /\ Get(store.fields, key).parent = Absent
       /\ Keys(store.fields) = Keys(FieldsRead) \cup {key}

\* The second and the third call after a first one on an empty block.
C12_Witness ==
  /\ last.op = "addNewField"
  /\ last.parentField = Null
  /\ Fresh
  /\ Keys(FieldsRead) = {"new-field", "new-field-2"}
  /\ last.ret = "new-field-3"
  /\ Get(store.fields, "new-field-3").order = 2

\* The sub_fields of the parent of the call, as the call read them.
SubFieldsRead ==
  IF Get(FieldsRead, last.parentField).hasSub
  THEN Get(FieldsRead, last.parentField).sub ELSE <<>>

\* C13: addNewField with a parent that is a top-level field takes the name
\* that is free among the sub_fields of that parent, whatever the top-level
\* keys are, and stores the field there, with the parent as its parent and
\* the number of sub_fields before the insertion as its order; the top-level
\* keys stay the same. Without a parent the field is stored at top level and
\* has no parent.
C13_NestedAddIsScopedToParent ==
  /\ (last.op = "addNewField" /\ last.parentField # Null
      /\ Has(FieldsRead, last.parentField)) =>
       LET key == last.ret
           parent == Get(store.fields, last.parentField)
       IN /\ last.out = "wrote"
          /\ IsAllocated(key, SubFieldsRead, "new-field")
          /\ Keys(store.fields) = Keys(FieldsRead)
          /\ parent.hasSub
          /\ Keys(parent.sub) = Keys(SubFieldsRead) \cup {key}
          /\ Get(parent.sub, key).name = key
          /\ Get(parent.sub, key).parent = last.parentField
          /\ Get(parent.sub, key).order = Len(SubFieldsRead)
          /\ \A k \in Keys(SubFieldsRead) :
               Get(parent.sub, k) = StringifyField(Get(SubFieldsRead, k))
  /\ (last.op = "addNewField" /\ last.parentField = Null) =>
       /\ Has(store.fields, last.ret)
       /\ ~Has(FieldsRead, last.ret)
       /\ Get(store.fields, last.ret).parent = Absent

\* A second field added to the parent new-field: the name new-field is free
\* among the sub_fields for the first one, and the second one is new-field-2.
C13_Witness ==
  /\ last.op = "addNewField"
  /\ last.parentField = "new-field"
  /\ Keys(FieldsRead) = {"new-field"}
  /\ Keys(SubFieldsRead) = {"new-field"}
  /\ last.ret = "new-field-2"
  /\ Get(Get(store.fields, "new-field").sub, "new-field-2").order = 1

\* The siblings of the selected field of the last call, in a block.
SelectedIn(b) ==
  SiblingsOf(b, IF last.sel.parent = Absent THEN Null ELSE last.sel.parent)

\* name-n for the smallest n >= 2 for which it is not a key of fields.
IsSuffixed(key, fields, name) ==
  \E n \in 2..(Len(fields) + 2) :
    /\ key = Suffixed(name, n)
    /\ ~Has(fields, key)
    /\ \A m \in 2..(n - 1) : Has(fields, Suffixed(name, m))

\* C14: duplicateField of a field of the block adds one field to the siblings
\* of that field: a clone of it, stored under its name, which is the name of
\* the original with the suffix -n for the smallest n >= 2 that gives a name
\* that is not a key; the original and every other field stay as they were.
C14_DuplicateAddsOneSuffixedClone ==
  (last.op = "duplicateField" /\ Fresh /\ KnownReference) =>
    LET before == SelectedIn(last.preStore)
        after == SelectedIn(store)
        original == Get(before, last.sel.uniqueId)
    IN /\ last.out = "wrote"
       /\ \E key \in Keys(after) :
            /\ IsSuffixed(key, before, original.name)
            /\ Keys(after) = Keys(before) \cup {key}
            /\ Get(after, key).name = key
            /\ [Get(after, key) EXCEPT !.name = original.name,
                                       !.order = original.order] = original
       /\ \A k \in Keys(before) : Get(after, k) = Get(before, k)
       /\ \A p \in Keys(last.preStore.fields) \ {last.sel.parent} :
            /\ Has(store.fields, p)
            /\ Get(store.fields, p) = Get(last.preStore.fields, p)

\* C15: the clone that duplicateField stores has the number of the siblings
\* it joins, counted before the insertion, as its order (the top-level fields
\* for a top-level field, the sub_fields of the parent for a nested one), and
\* the parent of the original.
C15_CloneIsOrderedLastOfItsSiblings ==
  (last.op = "duplicateField" /\ Fresh /\ KnownReference /\ last.out = "wrote") =>
    LET before == SelectedIn(last.preStore)
        after == SelectedIn(store)
        original == Get(before, last.sel.uniqueId)
    IN /\ Has(after, last.ins.key)
       /\ ~Has(before, last.ins.key)
       /\ Get(after, last.ins.key).order = Len(before)
       /\ Get(after, last.ins.key).parent = original.parent

\* C16: changeControl with a control name that is not in the registry, or
\* with a selector that has no name, returns at once: nothing is written to
\* the store, and the block of the render is as it was until the next
\* render parses the store again.
C16_ChangeControlIgnoresUnknownControl ==
  (/\ last.op = "changeControl"
   /\ (last.newControlName \notin ControlNames \/ last.sel.name = Absent)) =>
    /\ last.out = "noop"
    /\ store = last.preStore
    /\ block = last.pre \/ block = store

\* An unregistered control for a field of the block, and a registered one
\* for the selector of no field.
C16_Witness ==
  /\ last.op = "changeControl"
  /\ Fresh
  /\ Len(store.fields) > 0
  /\ \/ (last.newControlName = "bogus" /\ KnownReference /\ last.sel.name # Absent)
     \/ (last.newControlName = "image" /\ last.sel = NoSelector)

\* C17: changeControl with a registered control, for a field of the block,
\* replaces that field under its key: the new field has the name, label,
\* location and order of the previous one (and its parent if nested), the
\* name of the new control as control, its declared type as type, and the
\* defaults of the new control for every other setting; every other field
\* is as it was.
C17_ChangeControlResetsTheField ==
  (/\ last.op = "changeControl"
   /\ Fresh
   /\ KnownReference
   /\ last.newControlName \in ControlNames
   /\ last.sel.name # Absent) =>
    LET before == SelectedIn(last.preStore)
        after == SelectedIn(store)
        key == last.sel.uniqueId
        previousField == Get(before, key)
        newControl == controls[last.newControlName]
    IN /\ last.out = "wrote"
       /\ Keys(after) = Keys(before)
       /\ Get(after, key).name = previousField.name
       /\ Get(after, key).label = previousField.label
       /\ Get(after, key).location = previousField.location
       /\ Get(after, key).order = previousField.order
       /\ Get(after, key).parent = previousField.parent
       /\ Get(after, key).control = newControl.name
       /\ Get(after, key).type = newControl.type
       /\ Get(after, key).help = getSettingsDefaults(newControl.name).help
       /\ \A k \in Keys(before) \ {key} : Get(after, k) = Get(before, k)
       /\ \A p \in Keys(last.preStore.fields)
                   \ {IF last.sel.parent = Absent THEN key ELSE last.sel.parent} :
            /\ Has(store.fields, p)
            /\ Get(store.fields, p) = Get(last.preStore.fields, p)

\* The top-level fields but for the one that holds the selected field.
OtherTopLevelKeys(b) ==
  Keys(b.fields) \ {IF last.sel.parent = Absent THEN last.sel.uniqueId
                    ELSE last.sel.parent}

IsPlainChange ==
  /\ last.op = "changeFieldSettings"
  /\ Fresh
  /\ KnownReference
  /\ last.newSettings.location = Absent
  /\ last.newSettings.name = Absent

\* C18: changeFieldSettings with settings that have neither a location nor a
\* name, for a field of the block, merges them onto that field: each key of
\* the settings has the new value, every other attribute of the field has
\* the value it had, the field is under the same key, and every other field,
\* top-level or nested, is as it was.
C18_PlainSettingsAreMerged ==
  IsPlainChange =>
    LET before == SelectedIn(last.preStore)
        after == SelectedIn(store)
        key == last.sel.uniqueId
        currentField == Get(before, key)
    IN /\ last.out = "wrote"
       /\ Keys(after) = Keys(before)
       /\ Get(after, key) =
            [currentField EXCEPT
               !.label = IF last.newSettings.label # Absent
                         THEN last.newSettings.label ELSE @,
               !.help = IF last.newSettings.help # Absent
                        THEN last.newSettings.help ELSE @]
       /\ \A k \in Keys(before) \ {key} : Get(after, k) = Get(before, k)
       /\ Keys(store.fields) = Keys(last.preStore.fields)
       /\ \A p \in OtherTopLevelKeys(last.preStore) :
            Get(store.fields, p) = Get(last.preStore.fields, p)
       /\ last.sel.parent # Absent =>
            [Get(store.fields, last.sel.parent) EXCEPT !.sub = <<>>]
              = [Get(last.preStore.fields, last.sel.parent) EXCEPT !.sub = <<>>]

\* A label set on a nested field: its other settings and its parent stay.
C18_Witness ==
  /\ IsPlainChange
  /\ last.sel.parent # Absent
  /\ Get(SelectedIn(store), last.sel.uniqueId).label = "Title"
  /\ Get(SelectedIn(last.preStore), last.sel.uniqueId).label # "Title"
  /\ Get(SelectedIn(store), last.sel.uniqueId).help = "text-help"

\* The keys of a collection, with the location and the order of each field.
LayoutOf(m) ==
  {<<m[i].k, m[i].v.location, m[i].v.order>> : i \in 1..Len(m)}

\* The same keys at both levels, each field with its location and order.
SameLayout(b1, b2) ==
  /\ LayoutOf(b1.fields) = LayoutOf(b2.fields)
  /\ \A k \in Keys(b1.fields) \cap Keys(b2.fields) :
       LayoutOf(Get(b1.fields, k).sub) = LayoutOf(Get(b2.fields, k).sub)

\* The settings of the last call repeat the name, the location, or both, of
\* the selected field.
IsReapplied ==
  /\ last.op = "changeFieldSettings"
  /\ Fresh
  /\ KnownReference
  /\ last.newSettings.label = Absent
  /\ LET currentField == Get(SelectedIn(last.preStore), last.sel.uniqueId)
     IN /\ last.newSettings.name \in {Absent, currentField.name}
        /\ last.newSettings.location \in {Absent, currentField.location}
        /\ last.newSettings.name # Absent \/ last.newSettings.location # Absent

\* C19: changeFieldSettings with the name that the field has, with the
\* location that it has, or with both, moves and renames nothing: every
\* field is under the key, in the location and with the order that it had,
\* and no field is added or removed.
C19_ReappliedSettingsChangeNothing ==
  IsReapplied => (last.out = "wrote" /\ SameLayout(store, last.preStore))

\* C20: deleteField of a field of the block removes that field, from the
\* sub_fields of its parent if it is nested and else from the top-level
\* fields, and nothing else: every other field is under its key with every
\* attribute, order included, as it was, at both levels.
C20_DeleteRemovesTheSelectedFieldOnly ==
  (last.op = "deleteField" /\ Fresh /\ KnownReference) =>
    LET before == SelectedIn(last.preStore)
        after == SelectedIn(store)
        key == last.sel.uniqueId
    IN /\ last.out = "wrote"
       /\ Keys(after) = Keys(before) \ {key}
       /\ \A k \in Keys(before) \ {key} : Get(after, k) = Get(before, k)
       /\ \A p \in OtherTopLevelKeys(last.preStore) :
            /\ Has(store.fields, p)
            /\ Get(store.fields, p) = Get(last.preStore.fields, p)
       /\ last.sel.parent # Absent =>
            [Get(store.fields, last.sel.parent) EXCEPT !.sub = <<>>]
              = [Get(last.preStore.fields, last.sel.parent) EXCEPT !.sub = <<>>]

IsRead == last.op \in {"getField", "getFieldsForLocation"}

\* The selector, the parent or the block of a read names nothing to read.
NothingToRead ==
  \/ ~last.pre.hasFields
  \/ last.op = "getField"
       /\ (last.sel.uniqueId = Absent
           \/ (last.sel.parent # Absent /\ last.sel.parent \notin Parents(last.pre)))
  \/ last.op = "getFieldsForLocation"
       /\ last.parentField # Null
       /\ last.parentField \notin Parents(last.pre)

\* C21: getField and getFieldsForLocation write nothing and never throw; when
\* the block has no fields, the selector has no uniqueId, or the parent that
\* is named is not a field with sub_fields, getField returns {} and
\* getFieldsForLocation returns null.
C21_ReadsNeverThrow ==
  IsRead =>
    /\ last.out # "threw"
    /\ store = last.preStore
    /\ NothingToRead =>
         last.out = (IF last.op = "getField" THEN "empty" ELSE "null")

\* The fields of a block, nested ones included, by their position.
FieldPositions(b) ==
  {<<i, 0>> : i \in 1..Len(b.fields)}
  \cup UNION {{<<i, j>> : j \in 1..Len(b.fields[i].v.sub)} : i \in 1..Len(b.fields)}

FieldCount(b) == Cardinality(FieldPositions(b))

\* The key of the top-level field that the last call targets, if any.
TargetedTopLevelKey ==
  IF last.op \in {"changeFieldSettings", "changeControl"} /\ last.sel.parent = Absent
  THEN last.sel.uniqueId ELSE Absent

\* C22: changeFieldSettings (a location move and a rename included),
\* changeControl and reorderFields add no field and remove none: the block
\* has as many fields, nested ones included, as before the call, and every
\* top-level field other than the targeted one is under the key it had, with
\* the sub_fields keys it had.
C22_OnlyDeleteRemovesFields ==
  (/\ last.op \in {"changeFieldSettings", "changeControl", "reorderFields"}
   /\ Fresh
   /\ KnownReference) =>
    /\ FieldCount(store) = FieldCount(last.preStore)
    /\ \A k \in Keys(last.preStore.fields) \ {TargetedTopLevelKey} :
         /\ Has(store.fields, k)
         /\ last.sel.parent # k =>
              Keys(Get(store.fields, k).sub) = Keys(Get(last.preStore.fields, k).sub)

\* Every nested field has the key of the field that holds it as its parent.
ParentsAreKeys(b) ==
  \A i \in 1..Len(b.fields) :
    \A j \in 1..Len(b.fields[i].v.sub) :
      b.fields[i].v.sub[j].v.parent = b.fields[i].k

\* C23: a mutation of a block in which every nested field has the key of its
\* repeater as parent writes a block of which that is true too, also when
\* the repeater is renamed to a name that is a key already and is stored
\* under a suffixed key.
C23_NestedParentIsRepeaterKey ==
  (IsMutation /\ Fresh /\ KnownReference /\ ParentsAreKeys(last.preStore)) =>
    ParentsAreKeys(store)

\* Every field of the collection that has a uniqueId is under that key.
UniqueIdsAreKeysIn(m) ==
  \A i \in 1..Len(m) : m[i].v.uniqueId # Absent => m[i].v.uniqueId = m[i].k

UniqueIdsAreKeys(b) ==
  /\ UniqueIdsAreKeysIn(b.fields)
  /\ \A i \in 1..Len(b.fields) : UniqueIdsAreKeysIn(b.fields[i].v.sub)

\* C24: a mutation of a block in which every field that has a uniqueId is
\* stored under that uniqueId writes a block of which that is true too, so
\* that no two siblings have the same uniqueId: the clone that
\* duplicateField makes of a renamed field does not have the uniqueId of
\* the original.
C24_UniqueIdIsTheKey ==
  (IsMutation /\ Fresh /\ KnownReference /\ UniqueIdsAreKeys(last.preStore)) =>
    UniqueIdsAreKeys(store)

====
